---- MODULE Spec2Model ----
(***************************************************************************)
(* Browser-rendering worker: HTML -> PDF over scarce renderer sessions.    *)
(*                                                                         *)
(* Two revisions of the worker are modelled side by side:                  *)
(*   policy = "staggered"  src/unnamed/part_001 (lines 154-450): groups    *)
(*                         run one after the other, launchBrowserWithRetry *)
(*                         and a 22 s delay before every group but the     *)
(*                         first, at most 2 sessions;                      *)
(*   policy = "parallel"   src/src/index.js: groups run under Promise.all, *)
(*                         plain puppeteer.launch, at most 3 sessions.     *)
(*                                                                         *)
(* One action is one run of JavaScript between two awaits: the resolution  *)
(* of the awaited external call (its outcome drawn with \E) followed by    *)
(* everything the code does synchronously up to the next await.            *)
(***************************************************************************)
EXTENDS Integers, Sequences, FiniteSets, TLC

\* ------------------------------------------------------------------ bounds
MaxBatch == 3          \* longest batch submitted
MaxConcurrency == 4    \* largest requested concurrency
MaxPartLen == 9        \* longest batch distributed under SpecPartition

\* ------------------------------------------------------- program constants
maxRetries == 3        \* launchBrowserWithRetry(env, maxRetries = 3, ...)
initialDelay == 1000   \* launchBrowserWithRetry(env, ..., initialDelay = 1000)
delayMs == 22000       \* const delayMs = 22000 (between browser launches)
CapStaggered == 2      \* Math.min(concurrency, 2)
CapParallel == 3       \* Math.min(concurrency, 3)
DefaultStaggered == 2  \* requestBody.concurrency || 2
DefaultParallel == 3   \* requestBody.concurrency || 3
RateWindowMs == 60000  \* "3 new browsers per minute": the minute
RateLimitPerWindow == 3 \* "3 new browsers per minute": the 3

\* ------------------------------------------------------------ input values
\* A JavaScript property is modelled by a string; "undefined" stands for a
\* property that is absent, "" for the empty string.
Policies == {"staggered", "parallel"}
IdValues == {"undefined", "", "a", "b"}
HtmlValues == {"undefined", "", "h"}
Jobs == [id : IdValues, html : HtmlValues]
LaunchOutcomes == {"ok", "rateLimit", "other"}
Slots == 1..CapParallel
\* requestBody.batch: absent (or falsy), a truthy value that is no array, an array
BatchFields == {"undefined", "notArray", "array"}

\* JavaScript truthiness of a (string or absent) property: !x is true for
\* undefined and for the empty string.
Truthy(v) == v \notin {"undefined", ""}

RECURSIVE SeqsUpTo(_, _)
SeqsUpTo(S, n) ==
  IF n = 0 THEN {<<>>}
  ELSE LET shorter == SeqsUpTo(S, n - 1)
       IN shorter \cup {Append(s, x) : s \in {t \in shorter : Len(t) = n - 1}, x \in S}

Min(a, b) == IF a < b THEN a ELSE b

VARIABLES
  policy,          \* which revision of the worker runs
  mode,            \* "idle" | "batch" | "single"
  mpc,             \* the request: "idle" | "running" | "responded"
  batch,           \* requestBody.batch
  maxConcurrency,  \* maxConcurrency of processBatch: the capped concurrency
  html,            \* requestBody.html (single mode)
  nonEmptyChunks,  \* groups, each a sequence of positions of batch (1-based)
  allResults,      \* allResults of processBatch (staggered revision)
  response,        \* the Response fetch returned
  gpc,             \* per group: where its async code is suspended
  item,            \* per group: index in its chunk of the item in progress
  chunkResults,    \* per group: chunkResults
  browser,         \* per group: "undefined" | "open" | "closed" | "closeFailed"
  errLog,          \* per group: outcomes of its puppeteer.launch calls, oldest first
  closeCalls,      \* per group: number of browser.close() calls made
  pages,           \* per group: number of pages opened and not closed
  jobLog,          \* per batch position: "pending", "ok" or the step that failed
  batchField,      \* what requestBody.batch was: "none" before the request, else a BatchFields
  concurrency,     \* the concurrency argument of processBatch (0 when not recorded)
  now,             \* the clock in ms
  sleeps,          \* per group: the delays of its sleep() calls in launchBrowserWithRetry
  attemptAt,       \* per group: the times its puppeteer.launch calls were made
  createdAt        \* per group: the time its session was returned, -1 before

vars == <<policy, mode, mpc, batch, maxConcurrency, html, nonEmptyChunks, allResults, response,
          gpc, item, chunkResults, browser, errLog, closeCalls, pages, jobLog,
          batchField, concurrency, now, sleeps, attemptAt, createdAt>>

timeVars == <<now, sleeps, attemptAt, createdAt>>

NoResponse == [status |-> 0, kind |-> "none", results |-> <<>>, total |-> 0,
               successful |-> 0, failed |-> 0, error |-> ""]

\* ------------------------------------------------------------ pure helpers
\* Mutant of validate: only the first item is looked at.
validateFirstOnly(b, i) ==
  IF i > Len(b) THEN "ok"
  ELSE IF ~Truthy(b[i].html) THEN "missing html"
  ELSE IF ~Truthy(b[i].id) THEN "missing id"
  ELSE "ok"

\* processBatch, "Validate batch items": the first offending item throws.
RECURSIVE validate(_, _)
validate(b, i) ==
  IF i > Len(b) THEN "ok"
  ELSE IF ~Truthy(b[i].html) THEN "missing html"
  ELSE IF ~Truthy(b[i].id) THEN "missing id"
  ELSE validate(b, i + 1)

\* Mutant of forEachPush: the groups are filled starting from the second one.
RECURSIVE forEachPushRotated(_, _, _, _)
forEachPushRotated(chunks, index, len, n) ==
  IF index >= len THEN chunks
  ELSE forEachPushRotated([chunks EXCEPT ![((index + 1) % n) + 1] = Append(@, index + 1)],
                          index + 1, len, n)

\* batch.forEach((item, index) => chunks[index % maxConcurrency].push(item)),
\* index being the 0-based index of the item at position index + 1.
RECURSIVE forEachPush(_, _, _, _)
forEachPush(chunks, index, len, n) ==
  IF index >= len THEN chunks
  ELSE forEachPush([chunks EXCEPT ![(index % n) + 1] = Append(@, index + 1)],
                   index + 1, len, n)

\* Mutant of partition: consecutive runs of floor(len / n) jobs, the last
\* group taking what is left.
partitionContiguous(len, n) ==
  LET s == len \div n
      first(g) == (g - 1) * s + 1
      last(g) == IF g = n THEN len ELSE g * s
  IN SelectSeq([g \in 1..n |-> [j \in 1..(last(g) - first(g) + 1) |-> first(g) + j - 1]],
               LAMBDA c : Len(c) > 0)

\* chunks = Array.from({length: maxConcurrency}, () => []) filled by forEach,
\* then chunks.filter(chunk => chunk.length > 0).
partition(len, n) ==
  SelectSeq(forEachPush([i \in 1..n |-> <<>>], 0, len, n), LAMBDA c : Len(c) > 0)

\* Mutant of maxConcurrencyOf: the requested concurrency is used as it is.
maxConcurrencyUncapped(pol, c) == c

\* Math.min(concurrency, 2) resp. Math.min(concurrency, 3)
maxConcurrencyOf(pol, c) ==
  Min(c, IF pol = "staggered" THEN CapStaggered ELSE CapParallel)

\* requestBody.concurrency || 2 resp. || 3   (0 stands for absent or zero)
concurrencyOrDefault(pol, requested) ==
  IF requested # 0 THEN requested
  ELSE IF pol = "staggered" THEN DefaultStaggered ELSE DefaultParallel

\* Mutant of isBatchMode: the Array.isArray test is left out.
isBatchModeTruthy(f) == f # "undefined"

\* BATCH MODE test of fetch: requestBody.batch && Array.isArray(requestBody.batch)
isBatchMode(f) == f = "array"

\* Mutant of backoffDelay: the exponent is the attempt number itself.
backoffDelayOffByOne(attempt) == initialDelay * 2 ^ attempt

\* const delay = initialDelay * Math.pow(2, attempt - 1)
backoffDelay(attempt) == initialDelay * 2 ^ (attempt - 1)

\* Mutant of launchBrowserWithRetry: a rate-limit failure is not retried.
launchNoRetry(attempt, r) == IF r = "ok" THEN "return" ELSE "throw"

\* Mutant of launchBrowserWithRetry: off by one, a rate-limited last attempt
\* sleeps and the loop goes round again.
launchOneTooMany(attempt, r) ==
  IF r = "ok" THEN "return"
  ELSE IF r = "rateLimit" /\ attempt <= maxRetries THEN "sleep"
  ELSE IF attempt = maxRetries THEN "throw"
  ELSE "continue"

\* launchBrowserWithRetry: what the loop does once attempt number `attempt`
\* (1-based) of puppeteer.launch has had outcome r:
\*   "return"    the session is returned
\*   "sleep"     rate limit and attempt < maxRetries: sleep(delay), continue
\*   "throw"     attempt === maxRetries: throw new Error("Failed to launch ...")
\*   "continue"  neither branch taken: the catch block ends and the for loop
\*               goes on to the next attempt without sleeping
launchBrowserWithRetry(attempt, r) ==
  IF r = "ok" THEN "return"
  ELSE IF r = "rateLimit" /\ attempt < maxRetries THEN "sleep"
  ELSE IF attempt = maxRetries THEN "throw"
  ELSE "continue"

\* The parallel revision calls puppeteer.launch directly: any failure throws.
launchDirect(r) == IF r = "ok" THEN "return" ELSE "throw"

launchDecision(pol, attempt, r) ==
  IF pol = "staggered" THEN launchBrowserWithRetry(attempt, r) ELSE launchDirect(r)

\* results.filter(r => r.success).length / results.filter(r => !r.success).length
successfulOf(results) == Len(SelectSeq(results, LAMBDA r : r.success))
failedOf(results) == Len(SelectSeq(results, LAMBDA r : ~r.success))

\* new Response(JSON.stringify({results, total, successful, failed}))
BatchResponse(results) ==
  [status |-> 200, kind |-> "batch", results |-> results, total |-> Len(results),
   successful |-> successfulOf(results), failed |-> failedOf(results), error |-> ""]

\* fetch's catch: new Response(JSON.stringify({error: error.message}), {status: 500})
ErrorResponse(err) ==
  [status |-> 500, kind |-> "error", results |-> <<>>, total |-> 0,
   successful |-> 0, failed |-> 0, error |-> err]

\* new Response(pdf, {headers: {'content-type': 'application/pdf'}})
PdfResponse ==
  [status |-> 200, kind |-> "pdf", results |-> <<>>, total |-> 0,
   successful |-> 0, failed |-> 0, error |-> ""]

\* Mutant of flat: the groups' results are joined last group first.
RECURSIVE flatReversed(_, _)
flatReversed(cr, n) == IF n = 0 THEN <<>> ELSE cr[n] \o flatReversed(cr, n - 1)

\* allResults.flat() of the array Promise.all resolved with
RECURSIVE flat(_, _)
flat(cr, n) == IF n = 0 THEN <<>> ELSE flat(cr, n - 1) \o cr[n]

\* ------------------------------------------------------------------- Init
Init ==
  /\ policy \in Policies
  /\ mode = "idle"
  /\ mpc = "idle"
  /\ batch = <<>>
  /\ maxConcurrency = 0
  /\ html = "undefined"
  /\ nonEmptyChunks = <<>>
  /\ allResults = <<>>
  /\ response = NoResponse
  /\ gpc = [k \in Slots |-> "none"]
  /\ item = [k \in Slots |-> 0]
  /\ chunkResults = [k \in Slots |-> <<>>]
  /\ browser = [k \in Slots |-> "undefined"]
  /\ errLog = [k \in Slots |-> <<>>]
  /\ closeCalls = [k \in Slots |-> 0]
  /\ pages = [k \in Slots |-> 0]
  /\ jobLog = <<>>
  /\ batchField = "none"
  /\ concurrency = 0
  /\ now = 0
  /\ sleeps = [k \in Slots |-> <<>>]
  /\ attemptAt = [k \in Slots |-> <<>>]
  /\ createdAt = [k \in Slots |-> -1]

\* --------------------------------------------------------------- requests
BatchInputs == SeqsUpTo(Jobs, MaxBatch)

\* What a terminal launch failure carries as error.message.
launchError(pol, r) ==
  IF pol = "parallel" THEN r
  ELSE IF r = "rateLimit" THEN "Failed to launch browser after 3 attempts: rateLimit"
  ELSE "Failed to launch browser after 3 attempts: other"

\* fetch, BATCH MODE branch, and processBatch up to its first await:
\* validation, capping, round-robin distribution, and the start of the first
\* group (staggered) or of every group (parallel: the map callback runs each
\* async function up to its await of puppeteer.launch).
\* `inputs` are the batches drawn; `record` tells whether the concurrency
\* argument is kept in the state (it is under SpecCap only: kept, it sets
\* apart runs that differ in nothing else).
processBatchStart(inputs, record) ==
  /\ mpc = "idle"
  /\ \E f \in BatchFields, b \in inputs, requested \in 0..MaxConcurrency :
       LET v == validate(b, 1)
           c == concurrencyOrDefault(policy, requested)
           n == maxConcurrencyOf(policy, c)
           ch == partition(Len(b), n)
       IN /\ isBatchMode(f)
          /\ batchField' = f
          /\ mode' = "batch"
          /\ batch' = b
          /\ concurrency' = IF record THEN c ELSE 0
          /\ IF v # "ok"
             THEN /\ response' = ErrorResponse(v)
                  /\ mpc' = "responded"
                  /\ UNCHANGED <<maxConcurrency, nonEmptyChunks, gpc, jobLog>>
             ELSE IF Len(ch) = 0
             THEN /\ maxConcurrency' = n
                  /\ response' = BatchResponse(<<>>)
                  /\ mpc' = "responded"
                  /\ UNCHANGED <<nonEmptyChunks, gpc, jobLog>>
             ELSE /\ maxConcurrency' = n
                  /\ nonEmptyChunks' = ch
                  /\ mpc' = "running"
                  /\ jobLog' = [p \in 1..Len(b) |-> "pending"]
                  /\ gpc' = [k \in Slots |->
                               IF k <= (IF policy = "staggered" THEN 1 ELSE Len(ch))
                               THEN "launch" ELSE "none"]
                  /\ UNCHANGED response
  /\ UNCHANGED <<policy, html, allResults, item, chunkResults, browser, errLog,
                 closeCalls, pages, timeVars>>

PostBatch == processBatchStart(BatchInputs, FALSE)

\* fetch, SINGLE MODE branch, up to its first await (the launch).
PostSingle ==
  /\ mpc = "idle"
  /\ \E f \in BatchFields, h \in HtmlValues :
       /\ ~isBatchMode(f)
       /\ batchField' = f
       /\ mode' = "single"
       /\ html' = h
       /\ IF ~Truthy(h)
          THEN /\ response' = ErrorResponse("No HTML content provided")
               /\ mpc' = "responded"
               /\ UNCHANGED gpc
          ELSE /\ mpc' = "running"
               /\ gpc' = [gpc EXCEPT ![1] = "launch"]
               /\ UNCHANGED response
  /\ UNCHANGED <<policy, batch, maxConcurrency, nonEmptyChunks, allResults, item,
                 chunkResults, browser, errLog, closeCalls, pages, jobLog,
                 concurrency, timeVars>>

\* ------------------------------------------------------ session acquisition
\* Mutant of GroupThrows: the exception is caught and logged where it is
\* raised, and never reaches fetch's catch.
GroupThrowsSwallowed(k, err) ==
  /\ gpc' = [gpc EXCEPT ![k] = "threw"]
  /\ UNCHANGED <<mpc, response>>

\* An exception leaves group k (or the single-mode body): the request, if it
\* has not been answered yet, is answered by fetch's catch with status 500.
GroupThrows(k, err) ==
  /\ gpc' = [gpc EXCEPT ![k] = "threw"]
  /\ IF mpc = "running"
     THEN mpc' = "responded" /\ response' = ErrorResponse(err)
     ELSE UNCHANGED <<mpc, response>>

\* The clock after a sleep of t ms. Only sleeps move the clock: puppeteer and
\* page calls are taken to settle at once and timers to fire exactly on time,
\* which is the fastest run, the one whose launches are closest together.
Elapse(t) == now + t

\* await puppeteer.launch(env.BROWSER) settles for group k.
Launch(k) ==
  /\ gpc[k] = "launch"
  /\ \E r \in LaunchOutcomes :
       LET attempt == Len(errLog[k]) + 1
           d == launchDecision(policy, attempt, r)
       IN /\ errLog' = [errLog EXCEPT ![k] = Append(@, r)]
          /\ attemptAt' = [attemptAt EXCEPT ![k] = Append(@, now)]
          /\ UNCHANGED now
          /\ CASE d = "return" ->
                    /\ browser' = [browser EXCEPT ![k] = "open"]
                    /\ createdAt' = [createdAt EXCEPT ![k] = now]
                    /\ item' = [item EXCEPT ![k] = 1]
                    /\ gpc' = [gpc EXCEPT ![k] = "newPage"]
                    /\ UNCHANGED <<mpc, response, sleeps>>
               [] d = "sleep" ->
                    /\ sleeps' = [sleeps EXCEPT ![k] = Append(@, backoffDelay(attempt))]
                    /\ gpc' = [gpc EXCEPT ![k] = "backoff"]
                    /\ UNCHANGED <<browser, item, mpc, response, createdAt>>
               [] d = "continue" ->
                    /\ UNCHANGED <<gpc, browser, item, mpc, response, sleeps, createdAt>>
               [] OTHER ->
                    /\ GroupThrows(k, launchError(policy, r))
                    /\ UNCHANGED <<browser, item, sleeps, createdAt>>
  /\ UNCHANGED <<policy, mode, batch, maxConcurrency, html, nonEmptyChunks, allResults,
                 chunkResults, closeCalls, pages, jobLog, batchField, concurrency>>

\* await sleep(delay) in launchBrowserWithRetry returns: next attempt.
Backoff(k) ==
  /\ gpc[k] = "backoff"
  /\ now' = Elapse(sleeps[k][Len(sleeps[k])])
  /\ gpc' = [gpc EXCEPT ![k] = "launch"]
  /\ UNCHANGED <<policy, mode, mpc, batch, maxConcurrency, html, nonEmptyChunks,
                 allResults, response, item, chunkResults, browser, errLog,
                 closeCalls, pages, jobLog, batchField, concurrency,
                 sleeps, attemptAt, createdAt>>

\* Mutant of LaunchDelay: sleep(delayMs) is called without await, so the
\* launch follows at once.
LaunchDelayNotAwaited(k) ==
  /\ gpc[k] = "delay"
  /\ gpc' = [gpc EXCEPT ![k] = "launch"]
  /\ UNCHANGED <<policy, mode, mpc, batch, maxConcurrency, html, nonEmptyChunks,
                 allResults, response, item, chunkResults, browser, errLog,
                 closeCalls, pages, jobLog, batchField, concurrency, timeVars>>

\* await sleep(22000) before the launch of group k > 1 returns.
LaunchDelay(k) ==
  /\ gpc[k] = "delay"
  /\ now' = Elapse(delayMs)
  /\ gpc' = [gpc EXCEPT ![k] = "launch"]
  /\ UNCHANGED <<policy, mode, mpc, batch, maxConcurrency, html, nonEmptyChunks,
                 allResults, response, item, chunkResults, browser, errLog,
                 closeCalls, pages, jobLog, batchField, concurrency,
                 sleeps, attemptAt, createdAt>>

\* ------------------------------------------------------- jobs of a group
\* Mutant of currentItem: the chunk is walked from its end.
currentItemReversed(k) == nonEmptyChunks[k][Len(nonEmptyChunks[k]) - item[k] + 1]

\* The position in batch of the item group k is working on.
currentItem(k) == nonEmptyChunks[k][item[k]]

\* chunkResults.push({id: item.id, success: true, pdf}) and
\* chunkResults.push({id: item.id, success: false, error: itemError.message})
SuccessResult(p) == [id |-> batch[p].id, success |-> TRUE, error |-> ""]
FailureResult(p, step) == [id |-> batch[p].id, success |-> FALSE, error |-> step]

\* Mutant of AfterItem: the session is closed after the loop only when the
\* last item went well (close on the success path instead of in finally).
AfterItemNoFinally(k, cr, outcome) ==
  /\ chunkResults' = [chunkResults EXCEPT ![k] = cr]
  /\ jobLog' = [jobLog EXCEPT ![currentItem(k)] = outcome]
  /\ IF item[k] < Len(nonEmptyChunks[k])
     THEN /\ item' = [item EXCEPT ![k] = @ + 1]
          /\ gpc' = [gpc EXCEPT ![k] = "newPage"]
          /\ UNCHANGED allResults
     ELSE /\ gpc' = [gpc EXCEPT ![k] = IF outcome = "ok" THEN "close" ELSE "done"]
          /\ allResults' = IF policy = "staggered" THEN allResults \o cr ELSE allResults
          /\ UNCHANGED item

\* Mutant of AfterItem: a job that fails is rendered a second time before
\* its failure is recorded as its result.
AfterItemRetriesFailed(k, cr, outcome) ==
  IF outcome # "ok" /\ jobLog[currentItem(k)] = "pending"
  THEN /\ gpc' = [gpc EXCEPT ![k] = "newPage"]
       /\ jobLog' = [jobLog EXCEPT ![currentItem(k)] = outcome]
       /\ UNCHANGED <<chunkResults, item, allResults>>
  ELSE /\ chunkResults' = [chunkResults EXCEPT ![k] = cr]
       /\ jobLog' = [jobLog EXCEPT ![currentItem(k)] = outcome]
       /\ IF item[k] < Len(nonEmptyChunks[k])
          THEN /\ item' = [item EXCEPT ![k] = @ + 1]
               /\ gpc' = [gpc EXCEPT ![k] = "newPage"]
               /\ UNCHANGED allResults
          ELSE /\ gpc' = [gpc EXCEPT ![k] = "close"]
               /\ allResults' = IF policy = "staggered" THEN allResults \o cr ELSE allResults
               /\ UNCHANGED item

\* The body of `for (const item of chunk)` has ended for the current item with
\* chunkResults = cr: the loop takes the next item (browser.newPage() is
\* called), or ends; after the loop the staggered revision pushes the chunk's
\* results onto allResults, and both enter `finally` (browser is set here).
AfterItem(k, cr, outcome) ==
  /\ chunkResults' = [chunkResults EXCEPT ![k] = cr]
  /\ jobLog' = [jobLog EXCEPT ![currentItem(k)] = outcome]
  /\ IF item[k] < Len(nonEmptyChunks[k])
     THEN /\ item' = [item EXCEPT ![k] = @ + 1]
          /\ gpc' = [gpc EXCEPT ![k] = "newPage"]
          /\ UNCHANGED allResults
     ELSE /\ gpc' = [gpc EXCEPT ![k] = "close"]
          /\ allResults' = IF policy = "staggered" THEN allResults \o cr ELSE allResults
          /\ UNCHANGED item

\* catch (itemError): the failure of `step` becomes a failed JobResult.
ItemCatch(k, step) ==
  AfterItem(k, Append(chunkResults[k], FailureResult(currentItem(k), step)), step)

\* await browser.newPage() settles.
NewPage(k) ==
  /\ mode = "batch" /\ gpc[k] = "newPage"
  /\ \/ /\ pages' = [pages EXCEPT ![k] = @ + 1]
        /\ gpc' = [gpc EXCEPT ![k] = "setContent"]
        /\ UNCHANGED <<item, chunkResults, allResults, jobLog>>
     \/ /\ ItemCatch(k, "newPage")
        /\ UNCHANGED pages
  /\ UNCHANGED <<batchField, concurrency, timeVars,
                 policy, mode, mpc, batch, maxConcurrency, html, nonEmptyChunks,
                 response, browser, errLog, closeCalls>>

\* await page.setContent(item.html, ...) settles.
SetContent(k) ==
  /\ mode = "batch" /\ gpc[k] = "setContent"
  /\ \/ /\ gpc' = [gpc EXCEPT ![k] = "pdf"]
        /\ UNCHANGED <<item, chunkResults, allResults, jobLog>>
     \/ ItemCatch(k, "setContent")
  /\ UNCHANGED <<batchField, concurrency, timeVars,
                 policy, mode, mpc, batch, maxConcurrency, html, nonEmptyChunks,
                 response, browser, errLog, closeCalls, pages>>

\* await page.pdf(pdfOptions) settles; on success the success result is pushed
\* and page.close() is called.
Pdf(k) ==
  /\ mode = "batch" /\ gpc[k] = "pdf"
  /\ \/ /\ chunkResults' = [chunkResults EXCEPT
                              ![k] = Append(@, SuccessResult(currentItem(k)))]
        /\ gpc' = [gpc EXCEPT ![k] = "pageClose"]
        /\ UNCHANGED <<item, allResults, jobLog>>
     \/ ItemCatch(k, "pdf")
  /\ UNCHANGED <<batchField, concurrency, timeVars,
                 policy, mode, mpc, batch, maxConcurrency, html, nonEmptyChunks,
                 response, browser, errLog, closeCalls, pages>>

\* await page.close() settles; it is inside the same try as the render, so
\* its failure reaches catch (itemError) after the success result was pushed.
PageClose(k) ==
  /\ mode = "batch" /\ gpc[k] = "pageClose"
  /\ \/ /\ pages' = [pages EXCEPT ![k] = @ - 1]
        /\ AfterItem(k, chunkResults[k], "ok")
     \/ /\ ItemCatch(k, "pageClose")
        /\ UNCHANGED pages
  /\ UNCHANGED <<batchField, concurrency, timeVars,
                 policy, mode, mpc, batch, maxConcurrency, html, nonEmptyChunks,
                 response, browser, errLog, closeCalls>>

\* Mutant of Close: browser.close() is called without await, so the code
\* goes on while the session is still open.
CloseNotAwaited(k) ==
  /\ mode = "batch" /\ gpc[k] = "close"
  /\ closeCalls' = [closeCalls EXCEPT ![k] = @ + 1]
  /\ UNCHANGED browser
  /\ IF policy = "staggered"
     THEN IF k < Len(nonEmptyChunks)
          THEN /\ gpc' = [gpc EXCEPT ![k] = "done", ![k + 1] = "delay"]
               /\ UNCHANGED <<mpc, response>>
          ELSE /\ gpc' = [gpc EXCEPT ![k] = "done"]
               /\ mpc' = "responded"
               /\ response' = BatchResponse(allResults)
     ELSE /\ gpc' = [gpc EXCEPT ![k] = "done"]
          /\ IF /\ mpc = "running"
                /\ \A j \in 1..Len(nonEmptyChunks) : j # k => gpc[j] = "done"
             THEN /\ mpc' = "responded"
                  /\ response' = BatchResponse(flat(chunkResults, Len(nonEmptyChunks)))
             ELSE UNCHANGED <<mpc, response>>
  /\ UNCHANGED <<batchField, concurrency, timeVars,
                 policy, mode, batch, maxConcurrency, html, nonEmptyChunks, allResults,
                 item, chunkResults, errLog, pages, jobLog>>

\* finally { if (browser) await browser.close() } settles for group k.
\* Staggered: the for loop over chunks goes on (sleep(22000) before the next
\* group) or ends and the BatchResult is returned. Parallel: the group's
\* promise resolves; Promise.all resolves once every group has resolved.
\* A failing close throws out of the finally block.
Close(k) ==
  /\ mode = "batch" /\ gpc[k] = "close"
  /\ closeCalls' = [closeCalls EXCEPT ![k] = @ + 1]
  /\ \/ /\ browser' = [browser EXCEPT ![k] = "closed"]
        /\ IF policy = "staggered"
           THEN IF k < Len(nonEmptyChunks)
                THEN /\ gpc' = [gpc EXCEPT ![k] = "done", ![k + 1] = "delay"]
                     /\ UNCHANGED <<mpc, response>>
                ELSE /\ gpc' = [gpc EXCEPT ![k] = "done"]
                     /\ mpc' = "responded"
                     /\ response' = BatchResponse(allResults)
           ELSE /\ gpc' = [gpc EXCEPT ![k] = "done"]
                /\ IF /\ mpc = "running"
                      /\ \A j \in 1..Len(nonEmptyChunks) : j # k => gpc[j] = "done"
                   THEN /\ mpc' = "responded"
                        /\ response' = BatchResponse(flat(chunkResults, Len(nonEmptyChunks)))
                   ELSE UNCHANGED <<mpc, response>>
     \/ /\ browser' = [browser EXCEPT ![k] = "closeFailed"]
        /\ GroupThrows(k, "close")
  /\ UNCHANGED <<batchField, concurrency, timeVars,
                 policy, mode, batch, maxConcurrency, html, nonEmptyChunks, allResults,
                 item, chunkResults, errLog, pages, jobLog>>

\* ------------------------------------------------------------- single mode
\* fetch, SINGLE MODE: await browser.newPage() settles.
SingleNewPage ==
  /\ mode = "single" /\ gpc[1] = "newPage"
  /\ \/ /\ pages' = [pages EXCEPT ![1] = @ + 1]
        /\ gpc' = [gpc EXCEPT ![1] = "setContent"]
        /\ UNCHANGED <<mpc, response>>
     \/ /\ GroupThrows(1, "newPage")
        /\ UNCHANGED pages
  /\ UNCHANGED <<batchField, concurrency, timeVars,
                 policy, mode, batch, maxConcurrency, html, nonEmptyChunks, allResults,
                 item, chunkResults, browser, errLog, closeCalls, jobLog>>

\* fetch, SINGLE MODE: await page.setContent(html, ...) settles.
SingleSetContent ==
  /\ mode = "single" /\ gpc[1] = "setContent"
  /\ \/ /\ gpc' = [gpc EXCEPT ![1] = "pdf"]
        /\ UNCHANGED <<mpc, response>>
     \/ GroupThrows(1, "setContent")
  /\ UNCHANGED <<batchField, concurrency, timeVars,
                 policy, mode, batch, maxConcurrency, html, nonEmptyChunks, allResults,
                 item, chunkResults, browser, errLog, closeCalls, pages, jobLog>>

\* fetch, SINGLE MODE: await page.pdf(...) settles; then browser.close() is called.
SinglePdf ==
  /\ mode = "single" /\ gpc[1] = "pdf"
  /\ \/ /\ gpc' = [gpc EXCEPT ![1] = "close"]
        /\ UNCHANGED <<mpc, response>>
     \/ GroupThrows(1, "pdf")
  /\ UNCHANGED <<batchField, concurrency, timeVars,
                 policy, mode, batch, maxConcurrency, html, nonEmptyChunks, allResults,
                 item, chunkResults, browser, errLog, closeCalls, pages, jobLog>>

\* fetch, SINGLE MODE: await browser.close() settles; the PDF is returned.
SingleClose ==
  /\ mode = "single" /\ gpc[1] = "close"
  /\ closeCalls' = [closeCalls EXCEPT ![1] = @ + 1]
  /\ \/ /\ browser' = [browser EXCEPT ![1] = "closed"]
        /\ gpc' = [gpc EXCEPT ![1] = "done"]
        /\ mpc' = "responded"
        /\ response' = PdfResponse
     \/ /\ browser' = [browser EXCEPT ![1] = "closeFailed"]
        /\ GroupThrows(1, "close")
  /\ UNCHANGED <<batchField, concurrency, timeVars,
                 policy, mode, batch, maxConcurrency, html, nonEmptyChunks, allResults,
                 item, chunkResults, errLog, pages, jobLog>>

\* ------------------------------------------------------------ specification
Next ==
  \/ PostBatch
  \/ PostSingle
  \/ \E k \in Slots : Launch(k)
  \/ \E k \in Slots : Backoff(k)
  \/ \E k \in Slots : LaunchDelay(k)
  \/ \E k \in Slots : NewPage(k)
  \/ \E k \in Slots : SetContent(k)
  \/ \E k \in Slots : Pdf(k)
  \/ \E k \in Slots : PageClose(k)
  \/ \E k \in Slots : Close(k)
  \/ SingleNewPage
  \/ SingleSetContent
  \/ SinglePdf
  \/ SingleClose

Spec == Init /\ [][Next]_vars

\* ------------------------------------------ the distribution on its own
\* processBatch's distribution of the jobs is a pure function of the batch
\* length and the capped concurrency. SpecPartition draws both in its initial
\* state (valid batches of up to MaxPartLen jobs, every concurrency argument
\* processBatch can receive) and applies the distribution in one step.
UniformBatch(len) == [i \in 1..len |-> [id |-> "a", html |-> "h"]]

InitPartition ==
  /\ policy \in Policies
  /\ mode = "batch"
  /\ mpc = "idle"
  /\ batch \in {UniformBatch(len) : len \in 0..MaxPartLen}
  /\ concurrency \in 1..MaxConcurrency
  /\ batchField = "array"
  /\ maxConcurrency = 0
  /\ html = "undefined"
  /\ nonEmptyChunks = <<>>
  /\ allResults = <<>>
  /\ response = NoResponse
  /\ gpc = [k \in Slots |-> "none"]
  /\ item = [k \in Slots |-> 0]
  /\ chunkResults = [k \in Slots |-> <<>>]
  /\ browser = [k \in Slots |-> "undefined"]
  /\ errLog = [k \in Slots |-> <<>>]
  /\ closeCalls = [k \in Slots |-> 0]
  /\ pages = [k \in Slots |-> 0]
  /\ jobLog = <<>>
  /\ now = 0
  /\ sleeps = [k \in Slots |-> <<>>]
  /\ attemptAt = [k \in Slots |-> <<>>]
  /\ createdAt = [k \in Slots |-> -1]

\* processBatch: maxConcurrency = Math.min(concurrency, cap), the forEach
\* filling chunks and the filter giving nonEmptyChunks.
Distribute ==
  /\ mpc = "idle"
  /\ maxConcurrency' = maxConcurrencyOf(policy, concurrency)
  /\ nonEmptyChunks' = partition(Len(batch), maxConcurrency')
  /\ mpc' = "running"
  /\ UNCHANGED <<policy, mode, batch, html, allResults, response, gpc, item,
                 chunkResults, browser, errLog, closeCalls, pages, jobLog,
                 batchField, concurrency, timeVars>>

SpecPartition == InitPartition /\ [][Distribute]_vars

\* ------------------------------------- batches with the request on record
\* SpecCap runs valid batches only and keeps the concurrency argument of
\* processBatch in the state, so that the sessions made can be compared with
\* what was asked for.
CapInputs == {UniformBatch(len) : len \in 0..MaxBatch}

PostBatchCap == processBatchStart(CapInputs, TRUE)

NextCap ==
  \/ PostBatchCap
  \/ \E k \in Slots : Launch(k)
  \/ \E k \in Slots : Backoff(k)
  \/ \E k \in Slots : LaunchDelay(k)
  \/ \E k \in Slots : NewPage(k)
  \/ \E k \in Slots : SetContent(k)
  \/ \E k \in Slots : Pdf(k)
  \/ \E k \in Slots : PageClose(k)
  \/ \E k \in Slots : Close(k)

SpecCap == Init /\ [][NextCap]_vars

\* ------------------------------------------------ every call returns
\* SpecLive is SpecCap with the assumption that every awaited external call
\* (launch, newPage, setContent, pdf, close, sleep) settles in finite time:
\* whenever some await is pending, one of them settles.
SpecLive == Init /\ [][NextCap]_vars /\ WF_vars(NextCap)

\* ------------------------------------------------------ htmlToPdf (RPC)
\* htmlToPdf is called by another Worker and returns the PDF or throws; it
\* runs on slot 1. Its outcome is kept in `response` (kind "rpcPdf" or
\* "rpcThrow" with the error), and what try/catch left for `finally` in
\* jobLog[1]: "pending", "ok" or the step that threw.
RpcPdfReturned == [NoResponse EXCEPT !.kind = "rpcPdf"]
RpcThrown(err) == [NoResponse EXCEPT !.kind = "rpcThrow", !.error = err]

\* const html = request.body || request
RpcHtml(body) == IF Truthy(body) THEN body ELSE "request"

\* htmlToPdf up to its first await (the launch).
CallHtmlToPdf ==
  /\ mpc = "idle"
  /\ \E body \in HtmlValues :
       html' = RpcHtml(body)
  /\ mode' = "rpc"
  /\ mpc' = "running"
  /\ gpc' = [gpc EXCEPT ![1] = "launch"]
  /\ jobLog' = <<"pending">>
  /\ UNCHANGED <<policy, batch, maxConcurrency, nonEmptyChunks, allResults, response,
                 item, chunkResults, browser, errLog, closeCalls, pages,
                 batchField, concurrency, timeVars>>

\* browser = await launchBrowserWithRetry(env) (puppeteer.launch in the
\* parallel revision) settles. A throw goes through catch (rethrown) and
\* finally, where browser is undefined: nothing is closed.
RpcLaunch ==
  /\ mode = "rpc" /\ gpc[1] = "launch"
  /\ \E r \in LaunchOutcomes :
       LET attempt == Len(errLog[1]) + 1
           d == launchDecision(policy, attempt, r)
       IN /\ errLog' = [errLog EXCEPT ![1] = Append(@, r)]
          /\ attemptAt' = [attemptAt EXCEPT ![1] = Append(@, now)]
          /\ UNCHANGED now
          /\ CASE d = "return" ->
                    /\ browser' = [browser EXCEPT ![1] = "open"]
                    /\ createdAt' = [createdAt EXCEPT ![1] = now]
                    /\ gpc' = [gpc EXCEPT ![1] = "newPage"]
                    /\ UNCHANGED <<mpc, response, sleeps>>
               [] d = "sleep" ->
                    /\ sleeps' = [sleeps EXCEPT ![1] = Append(@, backoffDelay(attempt))]
                    /\ gpc' = [gpc EXCEPT ![1] = "backoff"]
                    /\ UNCHANGED <<browser, mpc, response, createdAt>>
               [] d = "continue" ->
                    /\ UNCHANGED <<gpc, browser, mpc, response, sleeps, createdAt>>
               [] OTHER ->
                    /\ gpc' = [gpc EXCEPT ![1] = "threw"]
                    /\ mpc' = "responded"
                    /\ response' = RpcThrown(launchError(policy, r))
                    /\ UNCHANGED <<browser, sleeps, createdAt>>
  /\ UNCHANGED <<policy, mode, batch, maxConcurrency, html, nonEmptyChunks, allResults,
                 item, chunkResults, closeCalls, pages, jobLog, batchField, concurrency>>

\* A step of the try block threw: catch logs and rethrows, finally is entered
\* with browser set.
RpcCatch(step) ==
  /\ jobLog' = <<step>>
  /\ gpc' = [gpc EXCEPT ![1] = "close"]

\* const page = await browser.newPage() settles.
RpcNewPage ==
  /\ mode = "rpc" /\ gpc[1] = "newPage"
  /\ \/ /\ pages' = [pages EXCEPT ![1] = @ + 1]
        /\ gpc' = [gpc EXCEPT ![1] = "setContent"]
        /\ UNCHANGED jobLog
     \/ /\ RpcCatch("newPage")
        /\ UNCHANGED pages
  /\ UNCHANGED <<policy, mode, mpc, batch, maxConcurrency, html, nonEmptyChunks,
                 allResults, response, item, chunkResults, browser, errLog, closeCalls,
                 batchField, concurrency, timeVars>>

\* await page.setContent(html, ...) settles.
RpcSetContent ==
  /\ mode = "rpc" /\ gpc[1] = "setContent"
  /\ \/ /\ gpc' = [gpc EXCEPT ![1] = "pdf"]
        /\ UNCHANGED jobLog
     \/ RpcCatch("setContent")
  /\ UNCHANGED <<policy, mode, mpc, batch, maxConcurrency, html, nonEmptyChunks,
                 allResults, response, item, chunkResults, browser, errLog, closeCalls,
                 pages, batchField, concurrency, timeVars>>

\* await page.pdf(...) settles; `return pdf` enters finally.
RpcPdf ==
  /\ mode = "rpc" /\ gpc[1] = "pdf"
  /\ \/ /\ jobLog' = <<"ok">>
        /\ gpc' = [gpc EXCEPT ![1] = "close"]
     \/ RpcCatch("pdf")
  /\ UNCHANGED <<policy, mode, mpc, batch, maxConcurrency, html, nonEmptyChunks,
                 allResults, response, item, chunkResults, browser, errLog, closeCalls,
                 pages, batchField, concurrency, timeVars>>

\* What htmlToPdf hands its caller once finally is through.
RpcOutcome == IF jobLog[1] = "ok" THEN RpcPdfReturned ELSE RpcThrown(jobLog[1])

\* Mutant of RpcClose: the close in finally has no try/catch of its own, as
\* in processBatch, and its failure replaces the outcome.
RpcCloseUnguarded ==
  /\ mode = "rpc" /\ gpc[1] = "close"
  /\ closeCalls' = [closeCalls EXCEPT ![1] = @ + 1]
  /\ mpc' = "responded"
  /\ \/ /\ browser' = [browser EXCEPT ![1] = "closed"]
        /\ response' = RpcOutcome
        /\ gpc' = [gpc EXCEPT ![1] = IF jobLog[1] = "ok" THEN "done" ELSE "threw"]
     \/ /\ browser' = [browser EXCEPT ![1] = "closeFailed"]
        /\ response' = RpcThrown("close")
        /\ gpc' = [gpc EXCEPT ![1] = "threw"]
  /\ UNCHANGED <<policy, mode, batch, maxConcurrency, html, nonEmptyChunks, allResults,
                 item, chunkResults, errLog, pages, jobLog, batchField, concurrency,
                 timeVars>>

\* finally { if (browser) { try { await browser.close() } catch (closeError)
\* { console.error(...) } } } settles: whether close resolved or rejected,
\* the pending return or throw of the try/catch goes ahead.
RpcClose ==
  /\ mode = "rpc" /\ gpc[1] = "close"
  /\ closeCalls' = [closeCalls EXCEPT ![1] = @ + 1]
  /\ mpc' = "responded"
  /\ \E closed \in {"closed", "closeFailed"} :
       browser' = [browser EXCEPT ![1] = closed]
  /\ response' = RpcOutcome
  /\ gpc' = [gpc EXCEPT ![1] = IF jobLog[1] = "ok" THEN "done" ELSE "threw"]
  /\ UNCHANGED <<policy, mode, batch, maxConcurrency, html, nonEmptyChunks, allResults,
                 item, chunkResults, errLog, pages, jobLog, batchField, concurrency,
                 timeVars>>

NextRpc ==
  \/ CallHtmlToPdf
  \/ RpcLaunch
  \/ Backoff(1)
  \/ RpcNewPage
  \/ RpcSetContent
  \/ RpcPdf
  \/ RpcClose

SpecRpc == Init /\ [][NextRpc]_vars

TypeOK ==
  /\ policy \in Policies
  /\ mode \in {"idle", "batch", "single"}
  /\ mpc \in {"idle", "running", "responded"}
  /\ \A k \in Slots : closeCalls[k] \in 0..1 /\ pages[k] \in 0..MaxBatch
  /\ now >= 0

\* ============================================================== properties
IdCount(seq, x) == Cardinality({i \in 1..Len(seq) : seq[i].id = x})
RenderSteps == {"newPage", "setContent", "pdf"}
ItemSteps == RenderSteps \cup {"pageClose"}
ValidBatch == \A i \in 1..Len(batch) : Truthy(batch[i].html) /\ Truthy(batch[i].id)
GroupExited(k) == gpc[k] \in {"done", "threw"}
AnyResult(k, ok) == \E i \in 1..Len(chunkResults[k]) : chunkResults[k][i].success = ok

\* C1: whenever processBatch returns a BatchResult, the multiset of ids in
\* results equals the multiset of ids of the submitted jobs: one JobResult per
\* job, whatever newPage, setContent, pdf and page.close do.
C1_OneResultPerJob ==
  response.kind = "batch" =>
    /\ Len(response.results) = Len(batch)
    /\ \A x \in IdValues : IdCount(response.results, x) = IdCount(batch, x)

\* C2: whenever processBatch returns a BatchResult, successful + failed = total
\* and total = len(batch).
C2_TotalsAddUp ==
  response.kind = "batch" =>
    /\ response.successful + response.failed = response.total
    /\ response.total = Len(batch)

\* C3: in batch mode browser.close() is called exactly once on every session
\* that was created, on every exit path of its group: never twice, never on a
\* session that was not created, and always by the time the group has exited.
C3_SessionClosedOnce ==
  mode = "batch" =>
    \A k \in Slots :
      /\ closeCalls[k] <= 1
      /\ browser[k] = "undefined" => closeCalls[k] = 0
      /\ browser[k] = "open" => closeCalls[k] = 0 /\ ~GroupExited(k)
      /\ (GroupExited(k) /\ browser[k] # "undefined") => closeCalls[k] = 1

\* C3 witness: a group in which one job failed and another succeeded has
\* exited and its session was closed once.
C3_Witness ==
  /\ mode = "batch"
  /\ \E k \in Slots :
       /\ gpc[k] = "done" /\ closeCalls[k] = 1 /\ browser[k] = "closed"
       /\ AnyResult(k, TRUE) /\ AnyResult(k, FALSE)

\* C4: in single mode the acquired session is released exactly once on every
\* exit path, also when setContent or pdf fails.
C4_SingleReleasedOnce ==
  (mode = "single" /\ mpc = "responded" /\ browser[1] # "undefined") => closeCalls[1] = 1

\* C5: a batch holding, at any position, a job with empty or missing html or
\* id fails with a validation error and no session creation is attempted.
C5_InvalidJobNoSession ==
  (mode = "batch" /\ ~ValidBatch) =>
    /\ mpc = "responded"
    /\ response.status = 500
    /\ response.error \in {"missing html", "missing id"}
    /\ \A k \in Slots : errLog[k] = <<>> /\ browser[k] = "undefined" /\ gpc[k] = "none"

\* C5 witness: the offending job is the last of three, after two valid ones.
C5_Witness ==
  /\ mode = "batch" /\ Len(batch) = 3
  /\ Truthy(batch[1].id) /\ Truthy(batch[1].html)
  /\ Truthy(batch[2].id) /\ Truthy(batch[2].html)
  /\ batch[3].id = "" /\ Truthy(batch[3].html)
  /\ response.status = 500

\* C6: a batch in which two jobs carry the same id fails validation: it never
\* starts, no session is created and no BatchResult is produced.
C6_DuplicateIdRejected ==
  (mode = "batch" /\ \E i, j \in 1..Len(batch) : i # j /\ batch[i].id = batch[j].id) =>
    /\ response.kind # "batch"
    /\ mpc # "running"
    /\ \A k \in Slots : errLog[k] = <<>>

\* C7: per-job isolation. In a BatchResult, the ids with a success=false result
\* are exactly the ids of the jobs whose render (newPage, setContent, pdf)
\* failed, the ids with a success=true result are exactly those of the other
\* jobs, and every job was attempted.
C7_PerJobIsolation ==
  response.kind = "batch" =>
    /\ \A p \in 1..Len(batch) : jobLog[p] # "pending"
    /\ \A x \in IdValues :
         /\ (\E i \in 1..Len(response.results) :
               response.results[i].id = x /\ ~response.results[i].success)
            <=> (\E p \in 1..Len(batch) : batch[p].id = x /\ jobLog[p] \in RenderSteps)
         /\ (\E i \in 1..Len(response.results) :
               response.results[i].id = x /\ response.results[i].success)
            <=> (\E p \in 1..Len(batch) : batch[p].id = x /\ jobLog[p] \notin RenderSteps)

\* The results the jobs of a chunk leave behind, computed from what happened
\* to each job alone (jobLog), whatever the launches did.
resultsOfJob(p) ==
  IF jobLog[p] = "ok" THEN <<SuccessResult(p)>>
  ELSE IF jobLog[p] = "pageClose"
       THEN <<SuccessResult(p), FailureResult(p, "pageClose")>>
  ELSE <<FailureResult(p, jobLog[p])>>

RECURSIVE resultsOfChunk(_, _)
resultsOfChunk(c, n) ==
  IF n = 0 THEN <<>> ELSE resultsOfChunk(c, n - 1) \o resultsOfJob(c[n])

RECURSIVE resultsOfChunks(_)
resultsOfChunks(n) ==
  IF n = 0 THEN <<>>
  ELSE resultsOfChunks(n - 1) \o resultsOfChunk(nonEmptyChunks[n], Len(nonEmptyChunks[n]))

RateLimitedUpTo(log, n) == \A i \in 1..n : log[i] = "rateLimit"

\* C8: when session creation is rate-limited on fewer than maxRetries
\* consecutive attempts and then succeeds, launchBrowserWithRetry retries and
\* returns the session, and the results of the batch are those the jobs'
\* own outcomes give, as in a run whose first attempt succeeded.
C8_RetryInvisible ==
  policy = "staggered" =>
    /\ \A k \in Slots :
         LET n == Len(errLog[k])
         IN /\ (1 <= n /\ n < maxRetries /\ RateLimitedUpTo(errLog[k], n))
                 => gpc[k] \in {"backoff", "launch"}
            /\ (1 <= n /\ n - 1 < maxRetries /\ RateLimitedUpTo(errLog[k], n - 1)
                  /\ errLog[k][n] = "ok")
                 => browser[k] # "undefined"
    /\ response.kind = "batch" => response.results = resultsOfChunks(Len(nonEmptyChunks))

\* C8 witness: a BatchResult was returned although the session of a group came
\* only with the third attempt, after two rate-limit failures.
C8_Witness ==
  /\ policy = "staggered" /\ response.kind = "batch"
  /\ Len(response.results) >= 2
  /\ \E k \in Slots : errLog[k] = <<"rateLimit", "rateLimit", "ok">>

\* C9: when maxRetries consecutive attempts are rate-limited,
\* launchBrowserWithRetry has made exactly maxRetries attempts and fails with
\* its terminal error; the call fails with that error (status 500) and the
\* error is never recorded as a JobResult.
C9_RetryExhaustion ==
  policy = "staggered" =>
    \A k \in Slots :
      /\ Len(errLog[k]) <= maxRetries
      /\ (Len(errLog[k]) = maxRetries /\ RateLimitedUpTo(errLog[k], maxRetries)) =>
           /\ gpc[k] = "threw"
           /\ browser[k] = "undefined"
           /\ chunkResults[k] = <<>>
           /\ mpc = "responded"
           /\ response.status = 500 /\ response.kind = "error"
           /\ response.error = "Failed to launch browser after 3 attempts: rateLimit"
      /\ \A i \in 1..Len(chunkResults[k]) :
           chunkResults[k][i].error \in ItemSteps \cup {""}

\* C9 witness: the second group of a batch ran out of attempts after the first
\* group had produced its results.
C9_Witness ==
  /\ mode = "batch" /\ policy = "staggered"
  /\ errLog[2] = <<"rateLimit", "rateLimit", "rateLimit">>
  /\ gpc[2] = "threw" /\ chunkResults[1] # <<>>
  /\ response.status = 500

\* C10: when an attempt fails with an error that is not a rate-limit error,
\* launchBrowserWithRetry makes no further attempt and fails at once, even
\* when attempts remain.
C10_NonRateLimitFailsAtOnce ==
  policy = "staggered" =>
    \A k \in Slots : \A i \in 1..Len(errLog[k]) :
      errLog[k][i] = "other" => (i = Len(errLog[k]) /\ gpc[k] = "threw")

\* C11: with the defaults (maxRetries 3, initialDelay 1000 ms) an acquisition
\* that keeps hitting the rate limit waits 1 s, then 2 s, then 4 s between its
\* attempts before it gives up.
C11_BackoffOneTwoFour ==
  policy = "staggered" =>
    \A k \in Slots :
      (gpc[k] = "threw" /\ browser[k] = "undefined"
         /\ RateLimitedUpTo(errLog[k], Len(errLog[k])))
        => sleeps[k] = <<1000, 2000, 4000>>

\* Group g of the distribution holds the positions g, g + n, g + 2n, ...
GroupOf(p, n) == ((p - 1) % n) + 1
Occurrences(ch, p) ==
  Cardinality({<<g, j>> \in (1..Len(ch)) \X (1..MaxPartLen + 1) :
                 j <= Len(ch[g]) /\ ch[g][j] = p})

\* C12: the job at (0-based) position i goes to group i mod n; within a group
\* the jobs keep their order of submission; groups left empty are dropped;
\* every job is in exactly one group, once. 7 jobs over 2 groups give
\* [1,3,5,7],[2,4,6] and over 3 groups [1,4,7],[2,5],[3,6].
C12_RoundRobinPartition ==
  mpc = "running" =>
    LET L == Len(batch)
        n == maxConcurrency
        ch == nonEmptyChunks
    IN /\ Len(ch) = Min(L, n)
       /\ \A g \in 1..Len(ch) :
            /\ Len(ch[g]) > 0
            /\ \A j \in 1..Len(ch[g]) : ch[g][j] \in 1..L /\ GroupOf(ch[g][j], n) = g
            /\ \A j \in 1..(Len(ch[g]) - 1) : ch[g][j] < ch[g][j + 1]
       /\ \A p \in 1..L : Occurrences(ch, p) = 1
       /\ (L = 7 /\ n = 2) => ch = << <<1, 3, 5, 7>>, <<2, 4, 6>> >>
       /\ (L = 7 /\ n = 3) => ch = << <<1, 4, 7>>, <<2, 5>>, <<3, 6>> >>

C12_Witness ==
  /\ mpc = "running"
  /\ Len(batch) = 7
  /\ maxConcurrency = 3
  /\ Len(nonEmptyChunks) = 3

\* C13: the groups that remain differ in size by at most one: each has
\* floor(L / n) or ceil(L / n) jobs.
C13_PartitionBalanced ==
  mpc = "running" =>
    LET L == Len(batch)
        n == maxConcurrency
    IN \A g \in 1..Len(nonEmptyChunks) :
         Len(nonEmptyChunks[g]) \in {L \div n, (L + n - 1) \div n}

C13_Witness ==
  /\ mpc = "running"
  /\ Len(batch) = 8
  /\ maxConcurrency = 3
  /\ Len(nonEmptyChunks[1]) = 3
  /\ Len(nonEmptyChunks[3]) = 2

\* C14: under the staggered policy the first attempt to create the session of
\* a group after the first is made at least delayMs (22 s) after the session
\* of the group before it was created; nothing delays the first group, and a
\* batch that makes a single group is never delayed.
C14_StaggeredLaunchSpacing ==
  (policy = "staggered" /\ mode = "batch") =>
    /\ \A k \in Slots :
         (k > 1 /\ Len(attemptAt[k]) > 0) =>
           /\ createdAt[k - 1] >= 0
           /\ attemptAt[k][1] >= createdAt[k - 1] + delayMs
    /\ Len(attemptAt[1]) > 0 => attemptAt[1][1] = 0
    /\ Len(nonEmptyChunks) = 1 =>
         /\ \A k \in Slots : gpc[k] # "delay"
         /\ now < delayMs

C14_Witness ==
  /\ policy = "staggered"
  /\ mode = "batch"
  /\ Len(sleeps[1]) = 2
  /\ createdAt[1] = 3000
  /\ attemptAt[2] = <<25000>>

\* The platform's limit on sessions per invocation under each policy.
PlatformMaxSessions == IF policy = "staggered" THEN CapStaggered ELSE CapParallel
EffectiveConcurrency == Min(concurrency, PlatformMaxSessions)
SessionsOpen == Cardinality({k \in Slots : browser[k] \in {"open", "closeFailed"}})
SessionsCreated == Cardinality({k \in Slots : createdAt[k] >= 0})

\* C15: in one batch invocation neither the sessions open at the same time
\* nor the sessions created in total exceed min(requested concurrency,
\* platform maximum), whatever concurrency >= 1 and batch size are asked for;
\* a request above the maximum is run with the maximum, not refused.
C15_SessionsWithinEffectiveConcurrency ==
  mode = "batch" =>
    /\ SessionsOpen <= EffectiveConcurrency
    /\ SessionsCreated <= EffectiveConcurrency
    /\ maxConcurrency = EffectiveConcurrency
    /\ Len(nonEmptyChunks) <= EffectiveConcurrency
    /\ (concurrency > PlatformMaxSessions /\ Len(batch) > 0) => gpc[1] # "none"

C15_Witness ==
  /\ policy = "parallel"
  /\ concurrency = 4
  /\ Len(batch) = 3
  /\ SessionsOpen = 3
  /\ SessionsCreated = CapParallel

\* C16 as claimed: a request runs in batch mode if and only if its batch field
\* is a non-empty sequence; a request whose batch is an empty sequence is
\* handled as a single job.
C16_BatchModeIffNonEmpty ==
  mode # "idle" =>
    (mode = "batch" <=> (batchField = "array" /\ Len(batch) > 0))

\* C16 as amended: a request runs in batch mode if and only if its batch field
\* is a sequence, empty or not; an empty batch is answered in batch mode with
\* an empty BatchResult and without a session; every other request is handled
\* as a single job.
C16_BatchModeIffArray ==
  mode # "idle" =>
    /\ mode = "batch" <=> batchField = "array"
    /\ mode = "single" <=> batchField \in {"undefined", "notArray"}
    /\ (mode = "batch" /\ batch = <<>>) =>
         /\ mpc = "responded"
         /\ response = BatchResponse(<<>>)
         /\ \A k \in Slots : errLog[k] = <<>> /\ gpc[k] = "none"
    /\ mode = "single" => batch = <<>> /\ nonEmptyChunks = <<>>

C16_Witness ==
  /\ mode = "batch"
  /\ batchField = "array"
  /\ batch = <<>>
  /\ response.status = 200 /\ response.kind = "batch" /\ response.total = 0

\* A session of the batch failed to close, and nothing else threw.
OnlyCloseFailed ==
  /\ \E k \in Slots : browser[k] = "closeFailed"
  /\ \A k \in Slots : gpc[k] = "threw" => browser[k] = "closeFailed"

\* C17: in batch mode a failing Session.close() does not mask the outcomes of
\* the jobs done on that session: a BatchResult is still returned and holds
\* the JobResult of every job of that group.
C17_CloseFailureKeepsResults ==
  (mode = "batch" /\ mpc = "responded" /\ OnlyCloseFailed) =>
    /\ response.kind = "batch"
    /\ \A k \in Slots :
         browser[k] = "closeFailed" =>
           \A i \in 1..Len(chunkResults[k]) :
             \E j \in 1..Len(response.results) : response.results[j] = chunkResults[k][i]

AllSessionsAcquired ==
  /\ Len(nonEmptyChunks) > 0
  /\ \A k \in 1..Len(nonEmptyChunks) : createdAt[k] >= 0

\* C18: a batch that passes validation and whose sessions are all acquired is
\* answered 2xx with the results list, whatever jobs fail (all of them
\* included); a non-2xx answer comes only from a validation failure or from a
\* session that could not be acquired.
C18_HardErrorOnlyFromValidationOrSessions ==
  (mode = "batch" /\ mpc = "responded") =>
    /\ (ValidBatch /\ AllSessionsAcquired) =>
         response.status = 200 /\ response.kind = "batch"
    /\ response.status # 200 =>
         \/ ~ValidBatch
         \/ \E k \in Slots : gpc[k] = "threw"  /\ browser[k] = "undefined"

\* The jobs of group k that have produced their JobResult.
JobsDone(k) ==
  Cardinality({j \in 1..Len(nonEmptyChunks[k]) : jobLog[nonEmptyChunks[k][j]] # "pending"})

\* C19: within a group the jobs run strictly in the order of assignment and
\* one at a time on the group's session: a job is started only when every job
\* before it in the group has produced its JobResult, no later job has been
\* touched, and at most one job of the group is in progress; under both
\* policies.
C19_GroupJobsInOrderOneAtATime ==
  mode = "batch" =>
    \A k \in 1..Len(nonEmptyChunks) :
      LET ch == nonEmptyChunks[k]
      IN /\ item[k] \in 0..Len(ch)
         /\ \A j \in 1..Len(ch) :
              /\ j < item[k] => jobLog[ch[j]] # "pending"
              /\ j > item[k] => jobLog[ch[j]] = "pending"
         /\ gpc[k] \in ItemSteps =>
              /\ jobLog[ch[item[k]]] = "pending"
              /\ JobsDone(k) = item[k] - 1
         /\ chunkResults[k] =
              resultsOfChunk(ch, JobsDone(k))
                \o (IF gpc[k] = "pageClose" THEN <<SuccessResult(ch[item[k]])>> ELSE <<>>)

\* C19 witness: under the parallel policy the second job of group 1 is being
\* rendered after its first job failed, while group 2 works on its own job.
C19_Witness ==
  /\ policy = "parallel"
  /\ nonEmptyChunks = << <<1, 3>>, <<2>> >>
  /\ item[1] = 2 /\ gpc[1] = "pdf"
  /\ jobLog[1] = "setContent" /\ jobLog[3] = "pending"
  /\ gpc[2] = "setContent"

\* C20: the results of a BatchResult are in group-then-item order: the
\* results of the jobs of group 1 in their order of assignment, then those of
\* group 2, and so on; under the parallel policy whatever the order in which
\* the groups ran and ended.
C20_ResultsInGroupThenItemOrder ==
  response.kind = "batch" =>
    response.results = resultsOfChunks(Len(nonEmptyChunks))

\* C20 witness: three groups ran in parallel; the answer starts with the
\* failed job of group 1 and ends with the job of group 3.
C20_Witness ==
  /\ policy = "parallel"
  /\ response.kind = "batch"
  /\ Len(nonEmptyChunks) = 3
  /\ batch[1].id = "a" /\ batch[2].id = "b" /\ batch[3].id = "a"
  /\ jobLog = <<"pdf", "ok", "ok">>
  /\ response.results = <<FailureResult(1, "pdf"), SuccessResult(2), SuccessResult(3)>>

\* C21: while an acquisition is rate-limited and attempts remain, the wait
\* between failed attempt i (counted from 1) and attempt i + 1 is exactly
\* initialDelay * 2^(i-1), without jitter, and no wait follows the last
\* permitted attempt.
C21_BackoffExactlyExponential ==
  policy = "staggered" =>
    \A k \in Slots :
      /\ \A i \in 1..(Len(attemptAt[k]) - 1) :
           errLog[k][i] = "rateLimit" =>
             attemptAt[k][i + 1] - attemptAt[k][i] = initialDelay * 2 ^ (i - 1)
      /\ gpc[k] = "backoff" =>
           /\ Len(errLog[k]) < maxRetries
           /\ errLog[k][Len(errLog[k])] = "rateLimit"
           /\ sleeps[k][Len(sleeps[k])] = initialDelay * 2 ^ (Len(errLog[k]) - 1)
      /\ (Len(errLog[k]) = maxRetries /\ errLog[k][maxRetries] = "rateLimit") =>
           /\ gpc[k] = "threw"
           /\ Len(sleeps[k]) < maxRetries
           /\ now = attemptAt[k][maxRetries]

\* C21 witness: three rate-limited attempts, at 0, 1000 and 3000 ms, and the
\* failure is raised at 3000 ms.
C21_Witness ==
  /\ policy = "staggered"
  /\ \E k \in Slots :
       /\ errLog[k] = <<"rateLimit", "rateLimit", "rateLimit">>
       /\ attemptAt[k] = <<0, 1000, 3000>>
       /\ sleeps[k] = <<1000, 2000>>
       /\ gpc[k] = "threw"

\* The acquisition of group k's session has failed for good.
AcquisitionFailed(k) == gpc[k] = "threw" /\ browser[k] = "undefined"

\* C22: under the staggered policy, when the acquisition of group k's session
\* fails for good the whole batch call fails: no BatchResult is returned, the
\* results collected for the groups before k are not reported, no session is
\* created (or asked for) for a group after k, and the session of every group
\* before k has been closed.
C22_StaggeredAcquisitionFailureAbortsBatch ==
  (policy = "staggered" /\ mode = "batch") =>
    \A k \in Slots :
      AcquisitionFailed(k) =>
        /\ mpc = "responded"
        /\ response.kind = "error" /\ response.status = 500
        /\ response.results = <<>> /\ response.total = 0
        /\ response.error = launchError(policy, errLog[k][Len(errLog[k])])
        /\ \A j \in Slots : j > k =>
             errLog[j] = <<>> /\ browser[j] = "undefined" /\ gpc[j] = "none"
        /\ \A j \in Slots : j < k =>
             browser[j] = "closed" /\ closeCalls[j] = 1 /\ gpc[j] = "done"

\* C22 witness: group 1 rendered its two jobs and closed its session, then
\* the acquisition for group 2 ran out of attempts.
C22_Witness ==
  /\ policy = "staggered" /\ mode = "batch"
  /\ AcquisitionFailed(2)
  /\ Len(chunkResults[1]) = 2 /\ AnyResult(1, TRUE)
  /\ browser[1] = "closed"
  /\ response.status = 500

\* C23: under the parallel policy, at the moment processBatch returns or
\* throws, every session it created has been closed, also when the session
\* creation of one group fails while other groups are still at work.
C23_ParallelAllClosedAtReturn ==
  (policy = "parallel" /\ mode = "batch" /\ mpc = "responded") =>
    \A k \in Slots :
      /\ createdAt[k] >= 0 => closeCalls[k] = 1
      /\ gpc[k] \in {"none", "done", "threw"}

\* The session-creation attempts of the invocation, each named by its group
\* and its rank, and those made in the window of RateWindowMs that opens at t.
Attempts == {<<k, i>> \in Slots \X (1..maxRetries) : i <= Len(attemptAt[k])}
AttemptsInWindow(t) ==
  {a \in Attempts : t <= attemptAt[a[1]][a[2]] /\ attemptAt[a[1]][a[2]] < t + RateWindowMs}

\* C24: within one batch invocation under the staggered policy, retries
\* included, no window of 60 s holds more than 3 session-creation attempts.
C24_AtMostThreeAttemptsPerMinute ==
  (policy = "staggered" /\ mode = "batch") =>
    \A a \in Attempts :
      Cardinality(AttemptsInWindow(attemptAt[a[1]][a[2]])) <= RateLimitPerWindow

\* The batch invocation is over: it was answered and no group is at an await.
BatchOver ==
  /\ mpc = "responded"
  /\ \A k \in Slots : gpc[k] \in {"none", "done", "threw"}

\* A render of job p is under way on the session of some group.
Rendering(p) ==
  \E k \in 1..Len(nonEmptyChunks) : gpc[k] \in ItemSteps /\ currentItem(k) = p

\* C25: provided every external operation returns or fails in finite time,
\* every batch invocation ends, with a BatchResult or with an error; it makes
\* at most (number of groups x maxRetries) session-creation attempts, and it
\* renders no job twice: a job that has its result is never rendered again.
C25_TerminatesWithinBounds ==
  /\ <>BatchOver
  /\ [](Cardinality(Attempts) <= Len(nonEmptyChunks) * maxRetries)
  /\ [](\A k \in Slots : Len(attemptAt[k]) <= maxRetries)
  /\ [](BatchOver => response.kind \in {"batch", "error"})
  /\ [][\A p \in 1..Len(jobLog) :
          /\ (jobLog[p] # "pending" /\ Len(jobLog') = Len(jobLog)) =>
               (jobLog'[p] = jobLog[p] /\ ~Rendering(p)')
          /\ Rendering(p) => jobLog[p] = "pending"]_vars

\* C25 witness: a batch of three jobs in two staggered groups is over after
\* six session-creation attempts.
C25_Witness ==
  /\ BatchOver
  /\ policy = "staggered"
  /\ Len(batch) = 3
  /\ Cardinality(Attempts) = 2 * maxRetries
  /\ response.kind = "batch"

\* C26: under the staggered policy at most one session is open at any time
\* of a batch invocation: the session of group k-1 has been closed when the
\* launch delay and the session creation of group k begin.
C26_StaggeredOneSessionAtATime ==
  (policy = "staggered" /\ mode = "batch") =>
    /\ SessionsOpen <= 1
    /\ \A k \in Slots :
         (k > 1 /\ gpc[k] # "none") =>
           /\ browser[k - 1] = "closed"
           /\ closeCalls[k - 1] = 1
           /\ gpc[k - 1] = "done"

\* C26 witness: group 2 renders on its session after group 1's was closed.
C26_Witness ==
  /\ policy = "staggered" /\ mode = "batch"
  /\ browser[1] = "closed"
  /\ browser[2] = "open" /\ gpc[2] = "pdf"
  /\ attemptAt[2] = <<22000>>

\* C27: on any session at most one page is open at a time: the page opened
\* for a job has been closed when the page of the next job of the group is
\* asked for, whether the job succeeded or failed.
C27_OnePageAtATime ==
  mode = "batch" =>
    \A k \in Slots :
      /\ pages[k] <= 1
      /\ gpc[k] = "newPage" => pages[k] = 0

\* C28: htmlToPdf closes the session it acquired exactly once on every exit
\* path, and a failing close never changes its outcome: a rendered PDF is
\* still returned and a render error is still the error thrown; when the
\* acquisition itself fails no close is attempted.
C28_RpcClosesOnceOutcomeKept ==
  mode = "rpc" =>
    /\ closeCalls[1] <= 1
    /\ browser[1] = "undefined" => closeCalls[1] = 0
    /\ browser[1] = "open" => closeCalls[1] = 0 /\ mpc = "running"
    /\ mpc = "responded" =>
         /\ browser[1] # "undefined" =>
              closeCalls[1] = 1 /\ browser[1] \in {"closed", "closeFailed"}
         /\ jobLog[1] = "ok" => response = RpcPdfReturned
         /\ jobLog[1] \in RenderSteps => response = RpcThrown(jobLog[1])
         /\ jobLog[1] = "pending" =>
              /\ browser[1] = "undefined"
              /\ closeCalls[1] = 0
              /\ response = RpcThrown(launchError(policy, errLog[1][Len(errLog[1])]))

\* C28 witness: the PDF was returned although closing the session failed.
C28_Witness ==
  /\ mode = "rpc" /\ mpc = "responded"
  /\ browser[1] = "closeFailed" /\ closeCalls[1] = 1
  /\ response = RpcPdfReturned

====
